---- MODULE Spec2Model ----
(***************************************************************************)
(* Verification model of the Echelon frontend.                            *)
(*                                                                         *)
(*   SpecApi    - the axios client of frontend/src/services/api.js:        *)
(*                request interceptor, response interceptor, token         *)
(*                refresh and the single retry, for concurrent requests.   *)
(*   SpecRec    - the Recommendations page: selection, confirmation        *)
(*                dialog and the apply mutation.                           *)
(*   SpecRoutes - App.js: AuthProvider state, ProtectedRoute and the       *)
(*                route table.                                             *)
(*   SpecShop   - the wizard of pages/ShoppingCampaignCreate.js.           *)
(*   SpecPmax   - the wizard PerformanceMaxCreate.                         *)
(*   SpecAlt    - the alternate axios client of unnamed/part_006, which    *)
(*                logs out on a 401 instead of refreshing.                 *)
(*                                                                         *)
(* Each specification runs one part; the variables of the other parts     *)
(* stay as they are after construction.                                    *)
(***************************************************************************)
EXTENDS Integers, Sequences, FiniteSets, TLC

(***************************************************************************)
(* Bounds                                                                  *)
(***************************************************************************)
\* number of requests that are in flight concurrently
MaxRequests == 2

\* number of apply requests one visit of the Recommendations page sends
MaxApplies == 2

\* lengths up to which the user grows the asset lists of a Performance Max
\* campaign
MaxHeadlines == 4
MaxDescriptions == 3
MaxImages == 3
MaxLogos == 2

(***************************************************************************)
(* State                                                                   *)
(***************************************************************************)
\* services/api.js
VARIABLES
  authToken,     \* localStorage['authToken']   (Null when the key is absent)
  refreshToken,  \* localStorage['refreshToken']
  location,      \* window.location.href (path part)
  pc,            \* per request: position of its promise chain
  hdr,           \* per request: config.headers.Authorization
  retry,         \* per request: config._retry
  sends,         \* per request: number of times the config went on the wire
  refreshes,     \* per request: number of POST /auth/refresh it issued
  refreshBody,   \* per request: refresh_token carried by its POST /auth/refresh
  refreshData,   \* per request: response.data.access_token of its refresh
  lastStatus,    \* per request: status of the latest reply (0: no response)
  outcome        \* per request: what the caller's promise settled with

\* the Recommendations page
VARIABLES
  recQuery,           \* state of the recommendations query: loading/error/success
  recData,            \* data.recommendations of the latest successful fetch
  selectedCampaigns,  \* useState([]): the campaign ids ticked in the table
  confirmDialogOpen,  \* useState(false)
  applyLoading,       \* applyMutation.isLoading
  applied             \* the campaign lists handed to applyMutation.mutate

\* App.js and the AuthProvider
VARIABLES
  isAuthenticated,  \* AuthProvider state
  isLoading,        \* AuthProvider state
  user,             \* AuthProvider state: the user's email
  account,          \* AuthProvider state
  authTimer,        \* the setTimeout of checkAuthStatus: pending / half / done
  path,             \* the router's current location
  screen            \* what the route tree rendered

\* pages/ShoppingCampaignCreate.js
VARIABLES
  shopActiveStep,  \* useState(0)
  shopFormData,    \* useState({...})
  shopErrors,      \* useState({}): the fields that carry an error message
  shopIsLoading,   \* useState(false)
  shopCreating,    \* number of (simulated) creations handleSubmit started
  shopMounted      \* FALSE once the page navigated away to /dashboard

\* PerformanceMaxCreate (pages/MerchantFeedDashboard.js, from line 701)
VARIABLES
  pmaxActiveStep,  \* useState(0)
  pmaxFormData,    \* useState({...})
  pmaxErrors,      \* useState({}): the fields that carry an error message
  pmaxIsLoading,   \* useState(false)
  pmaxCreating,    \* number of (simulated) creations handleSubmit started
  pmaxMounted,     \* FALSE once the page navigated away to /dashboard
  pmaxFocus        \* the group of controls the user experiments with

\* the alternate api client (unnamed/part_006)
VARIABLES
  echelon_token,  \* localStorage['echelon_token'] (Null when the key is absent)
  pathname,       \* window.location.pathname of the loaded document
  href,           \* the value assigned to window.location.href, Null if none
  altPc,          \* per request: position of its promise chain
  altHdr,         \* per request: config.headers.Authorization
  altSends,       \* per request: number of times the config went on the wire
  altLastStatus,  \* per request: status of the latest reply (0: no response)
  altOutcome      \* per request: what the caller's promise settled with

apiVars == <<authToken, refreshToken, location, pc, hdr, retry, sends,
             refreshes, refreshBody, refreshData, lastStatus, outcome>>

recVars == <<recQuery, recData, selectedCampaigns, confirmDialogOpen,
             applyLoading, applied>>

routeVars == <<isAuthenticated, isLoading, user, account, authTimer, path,
               screen>>

shopVars == <<shopActiveStep, shopFormData, shopErrors, shopIsLoading,
              shopCreating, shopMounted>>

pmaxVars == <<pmaxActiveStep, pmaxFormData, pmaxErrors, pmaxIsLoading,
              pmaxCreating, pmaxMounted, pmaxFocus>>

altVars == <<echelon_token, pathname, href, altPc, altHdr, altSends,
             altLastStatus, altOutcome>>

vars == <<apiVars, recVars, routeVars, shopVars, pmaxVars, altVars>>

nonApiVars == <<recVars, routeVars, shopVars, pmaxVars, altVars>>
nonRecVars == <<apiVars, routeVars, shopVars, pmaxVars, altVars>>
nonRouteVars == <<apiVars, recVars, shopVars, pmaxVars, altVars>>
nonShopVars == <<apiVars, recVars, routeVars, pmaxVars, altVars>>
nonPmaxVars == <<apiVars, recVars, routeVars, shopVars, altVars>>
nonAltVars == <<apiVars, recVars, routeVars, shopVars, pmaxVars>>

(***************************************************************************)
(* Part 1 - services/api.js                                                *)
(***************************************************************************)
Requests == 1..MaxRequests

\* localStorage.getItem returns null for a key that is not stored
Null == "<null>"
\* a config without an Authorization header
NoHeader == "<none>"

\* values a stored token / a token issued by the server may have
StoredTokens == {Null, "", "tok0"}
StoredRefreshTokens == {Null, "", "ref0"}
IssuedTokens == {"", "tok1", "tok2"}
\* statuses of an error reply; 0 stands for an error without a response
ErrorStatuses == {0, 401, 500}

\* JavaScript truthiness of a string-or-null value: if (token)
Truthy(s) == s # Null /\ s # ""

\* `Bearer ${token}`
Bearer(token) == "Bearer " \o token

Pending == [kind |-> "pending", status |-> 0, attempt |-> 0]
Resolved(st, n) == [kind |-> "response", status |-> st, attempt |-> n]
Rejected(st, n) == [kind |-> "error", status |-> st, attempt |-> n]

\* the interceptor without its `if (token)` test
RequestInterceptor_NoTokenTest(header, token) == Bearer(token)

\* api.interceptors.request.use: the Authorization header of the config the
\* interceptor returns, given the header of the config it receives
RequestInterceptor(header, token) ==
  IF Truthy(token) THEN Bearer(token) ELSE header

\* the refresh condition without the status test
ShouldRefresh_AnyStatus(status, retried) == ~retried

\* the refresh condition without the _retry test
ShouldRefresh_NoRetryFlag(status, retried) == status = 401

\* error.response?.status === 401 && !originalRequest._retry
ShouldRefresh(status, retried) == status = 401 /\ ~retried

InitApi ==
  /\ authToken \in StoredTokens
  /\ refreshToken \in StoredRefreshTokens
  /\ location = "/dashboard"
  /\ pc = [r \in Requests |-> "idle"]
  /\ hdr = [r \in Requests |-> NoHeader]
  /\ retry = [r \in Requests |-> FALSE]
  /\ sends = [r \in Requests |-> 0]
  /\ refreshes = [r \in Requests |-> 0]
  /\ refreshBody = [r \in Requests |-> Null]
  /\ refreshData = [r \in Requests |-> Null]
  /\ lastStatus = [r \in Requests |-> 0]
  /\ outcome = [r \in Requests |-> Pending]

\* a caller invokes one of the api methods: the request interceptor runs on
\* the fresh config and the request goes on the wire
SendRequest(r) ==
  /\ pc[r] = "idle"
  /\ hdr' = [hdr EXCEPT ![r] = RequestInterceptor(NoHeader, authToken)]
  /\ sends' = [sends EXCEPT ![r] = 1]
  /\ pc' = [pc EXCEPT ![r] = "inflight"]
  /\ UNCHANGED <<authToken, refreshToken, location, retry, refreshes,
                 refreshBody, refreshData, lastStatus, outcome>>
  /\ UNCHANGED nonApiVars

\* a 2xx reply: the response interceptor returns the response unchanged
ReceiveResponse(r) ==
  /\ pc[r] = "inflight"
  /\ lastStatus' = [lastStatus EXCEPT ![r] = 200]
  /\ outcome' = [outcome EXCEPT ![r] = Resolved(200, sends[r])]
  /\ pc' = [pc EXCEPT ![r] = "done"]
  /\ UNCHANGED <<authToken, refreshToken, location, hdr, retry, sends,
                 refreshes, refreshBody, refreshData>>
  /\ UNCHANGED nonApiVars

\* the error handler with a shared refresh: a 401 that arrives while another
\* request's refresh call is in progress waits for that call and issues none
ReceiveError_SharedRefresh(r, status) ==
  /\ pc[r] = "inflight"
  /\ lastStatus' = [lastStatus EXCEPT ![r] = status]
  /\ IF ShouldRefresh(status, retry[r])
       THEN /\ retry' = [retry EXCEPT ![r] = TRUE]
            /\ IF Truthy(refreshToken)
                 THEN /\ refreshBody' = [refreshBody EXCEPT ![r] = refreshToken]
                      /\ refreshes' =
                           IF \E q \in Requests : pc[q] = "refreshing"
                             THEN refreshes
                             ELSE [refreshes EXCEPT ![r] = @ + 1]
                      /\ pc' = [pc EXCEPT ![r] = "refreshing"]
                      /\ UNCHANGED outcome
                 ELSE /\ outcome' = [outcome EXCEPT ![r] = Rejected(status, sends[r])]
                      /\ pc' = [pc EXCEPT ![r] = "done"]
                      /\ UNCHANGED <<refreshBody, refreshes>>
       ELSE /\ outcome' = [outcome EXCEPT ![r] = Rejected(status, sends[r])]
            /\ pc' = [pc EXCEPT ![r] = "done"]
            /\ UNCHANGED <<retry, refreshBody, refreshes>>
  /\ UNCHANGED <<authToken, refreshToken, location, hdr, sends, refreshData>>
  /\ UNCHANGED nonApiVars

\* the error handler with the catch block's logout also taken when no
\* refreshToken is stored
ReceiveError_LogoutWithoutRefreshToken(r, status) ==
  /\ pc[r] = "inflight"
  /\ lastStatus' = [lastStatus EXCEPT ![r] = status]
  /\ IF ShouldRefresh(status, retry[r])
       THEN /\ retry' = [retry EXCEPT ![r] = TRUE]
            /\ IF Truthy(refreshToken)
                 THEN /\ refreshBody' = [refreshBody EXCEPT ![r] = refreshToken]
                      /\ refreshes' = [refreshes EXCEPT ![r] = @ + 1]
                      /\ pc' = [pc EXCEPT ![r] = "refreshing"]
                      /\ UNCHANGED <<outcome, authToken, refreshToken,
                                     location>>
                 ELSE /\ outcome' = [outcome EXCEPT ![r] = Rejected(status, sends[r])]
                      /\ pc' = [pc EXCEPT ![r] = "done"]
                      /\ authToken' = Null
                      /\ refreshToken' = Null
                      /\ location' = "/login"
                      /\ UNCHANGED <<refreshBody, refreshes>>
       ELSE /\ outcome' = [outcome EXCEPT ![r] = Rejected(status, sends[r])]
            /\ pc' = [pc EXCEPT ![r] = "done"]
            /\ UNCHANGED <<retry, refreshBody, refreshes, authToken,
                           refreshToken, location>>
  /\ UNCHANGED <<hdr, sends, refreshData>>
  /\ UNCHANGED nonApiVars

\* an error reply: the error handler of the response interceptor, up to its
\* first await (the refresh call) or its return
ReceiveError(r, status) ==
  /\ pc[r] = "inflight"
  /\ lastStatus' = [lastStatus EXCEPT ![r] = status]
  /\ IF ShouldRefresh(status, retry[r])
       THEN /\ retry' = [retry EXCEPT ![r] = TRUE]
            /\ IF Truthy(refreshToken)
                 THEN /\ refreshBody' = [refreshBody EXCEPT ![r] = refreshToken]
                      /\ refreshes' = [refreshes EXCEPT ![r] = @ + 1]
                      /\ pc' = [pc EXCEPT ![r] = "refreshing"]
                      /\ UNCHANGED outcome
                 ELSE /\ outcome' = [outcome EXCEPT ![r] = Rejected(status, sends[r])]
                      /\ pc' = [pc EXCEPT ![r] = "done"]
                      /\ UNCHANGED <<refreshBody, refreshes>>
       ELSE /\ outcome' = [outcome EXCEPT ![r] = Rejected(status, sends[r])]
            /\ pc' = [pc EXCEPT ![r] = "done"]
            /\ UNCHANGED <<retry, refreshBody, refreshes>>
  /\ UNCHANGED <<authToken, refreshToken, location, hdr, sends, refreshData>>
  /\ UNCHANGED nonApiVars

\* the refresh continuation without localStorage.setItem('authToken', ...)
RefreshSucceeded_NoStore(r, accessToken) ==
  /\ pc[r] = "refreshing"
  /\ refreshData' = [refreshData EXCEPT ![r] = accessToken]
  /\ hdr' = [hdr EXCEPT ![r] = RequestInterceptor(Bearer(accessToken), authToken)]
  /\ sends' = [sends EXCEPT ![r] = @ + 1]
  /\ pc' = [pc EXCEPT ![r] = "inflight"]
  /\ UNCHANGED <<authToken, refreshToken, location, retry, refreshes,
                 refreshBody, lastStatus, outcome>>
  /\ UNCHANGED nonApiVars

\* POST /auth/refresh succeeded: store the token, set the header and hand the
\* config back to api(), whose request interceptor runs before the re-send
RefreshSucceeded(r, accessToken) ==
  /\ pc[r] = "refreshing"
  /\ refreshData' = [refreshData EXCEPT ![r] = accessToken]
  /\ authToken' = accessToken
  /\ hdr' = [hdr EXCEPT ![r] = RequestInterceptor(Bearer(accessToken), accessToken)]
  /\ sends' = [sends EXCEPT ![r] = @ + 1]
  /\ pc' = [pc EXCEPT ![r] = "inflight"]
  /\ UNCHANGED <<refreshToken, location, retry, refreshes, refreshBody,
                 lastStatus, outcome>>
  /\ UNCHANGED nonApiVars

\* the catch block without localStorage.removeItem('refreshToken')
RefreshFailed_KeepRefreshToken(r) ==
  /\ pc[r] = "refreshing"
  /\ authToken' = Null
  /\ location' = "/login"
  /\ outcome' = [outcome EXCEPT ![r] = Rejected(lastStatus[r], sends[r])]
  /\ pc' = [pc EXCEPT ![r] = "done"]
  /\ UNCHANGED <<refreshToken, hdr, retry, sends, refreshes, refreshBody,
                 refreshData, lastStatus>>
  /\ UNCHANGED nonApiVars

\* POST /auth/refresh failed: the catch block, then the final reject of the
\* error the handler was called with
RefreshFailed(r) ==
  /\ pc[r] = "refreshing"
  /\ authToken' = Null
  /\ refreshToken' = Null
  /\ location' = "/login"
  /\ outcome' = [outcome EXCEPT ![r] = Rejected(lastStatus[r], sends[r])]
  /\ pc' = [pc EXCEPT ![r] = "done"]
  /\ UNCHANGED <<hdr, retry, sends, refreshes, refreshBody, refreshData,
                 lastStatus>>
  /\ UNCHANGED nonApiVars

NextApi ==
  \E r \in Requests :
    \/ SendRequest(r)
    \/ ReceiveResponse(r)
    \/ \E status \in ErrorStatuses : ReceiveError(r, status)
    \/ \E accessToken \in IssuedTokens : RefreshSucceeded(r, accessToken)
    \/ RefreshFailed(r)

(***************************************************************************)
(* Part 2 - the Recommendations page                                       *)
(***************************************************************************)
Rec(id, has) == [campaign_id |-> id, has_recommendations |-> has]

\* results the recommendations endpoint may return
RecommendationLists ==
  { <<>>,
    <<Rec("c1", TRUE), Rec("c2", TRUE), Rec("c3", FALSE)>>,
    <<Rec("c1", TRUE), Rec("c2", FALSE), Rec("c3", FALSE)>> }

\* Array.prototype.includes
Includes(seq, x) == \E i \in 1..Len(seq) : seq[i] = x

\* Array.prototype.filter with the test id !== x
Without(seq, x) == SelectSeq(seq, LAMBDA id : id # x)

\* recommendations.filter(r => r.has_recommendations).map(r => r.campaign_id)
RECURSIVE ActionableIds(_)
ActionableIds(recs) ==
  IF recs = <<>> THEN <<>>
  ELSE (IF Head(recs).has_recommendations
          THEN <<Head(recs).campaign_id>> ELSE <<>>)
       \o ActionableIds(Tail(recs))

\* the branch of the component that renders the cards, the table and the
\* dialog: not loading, no error, recommendations.length > 0
RecContentRendered == recQuery = "success" /\ Len(recData) > 0

\* the Dialog is on screen
ConfirmDialogShown == RecContentRendered /\ confirmDialogOpen

\* the page under the Dialog reacts to clicks only while the modal Dialog is
\* closed
RecPageInteractive == RecContentRendered /\ ~confirmDialogOpen

InitRec ==
  /\ recQuery = "loading"
  /\ recData = <<>>
  /\ selectedCampaigns = <<>>
  /\ confirmDialogOpen = FALSE
  /\ applyLoading = FALSE
  /\ applied = <<>>

\* the query (first load or a refetch) returns data
FetchSucceeds(recs) ==
  /\ recQuery' = "success"
  /\ recData' = recs
  /\ UNCHANGED <<selectedCampaigns, confirmDialogOpen, applyLoading, applied>>
  /\ UNCHANGED nonRecVars

\* the query (first load or a refetch) fails
FetchFails ==
  /\ recQuery' = "error"
  /\ UNCHANGED <<recData, selectedCampaigns, confirmDialogOpen, applyLoading,
                 applied>>
  /\ UNCHANGED nonRecVars

\* the checkbox of one table row
ToggleCampaignSelection(i) ==
  /\ RecPageInteractive
  /\ i \in 1..Len(recData)
  /\ recData[i].has_recommendations
  /\ LET campaignId == recData[i].campaign_id IN
       selectedCampaigns' =
         IF Includes(selectedCampaigns, campaignId)
           THEN Without(selectedCampaigns, campaignId)
           ELSE Append(selectedCampaigns, campaignId)
  /\ UNCHANGED <<recQuery, recData, confirmDialogOpen, applyLoading, applied>>
  /\ UNCHANGED nonRecVars

\* the checkbox in the table head; a click hands over the negation of its
\* checked property
ToggleAll ==
  /\ RecPageInteractive
  /\ LET actionable == ActionableIds(recData)
         checked == Len(actionable) > 0
                      /\ Len(selectedCampaigns) = Len(actionable)
     IN selectedCampaigns' = IF ~checked THEN actionable ELSE <<>>
  /\ UNCHANGED <<recQuery, recData, confirmDialogOpen, applyLoading, applied>>
  /\ UNCHANGED nonRecVars

\* the 'Clear Selection' button
ClearSelection ==
  /\ RecPageInteractive
  /\ Len(selectedCampaigns) # 0
  /\ selectedCampaigns' = <<>>
  /\ UNCHANGED <<recQuery, recData, confirmDialogOpen, applyLoading, applied>>
  /\ UNCHANGED nonRecVars

\* the 'Apply Selected' button and its handler
HandleApplySelected ==
  /\ RecPageInteractive
  /\ Len(selectedCampaigns) # 0
  /\ confirmDialogOpen' = (IF Len(selectedCampaigns) > 0 THEN TRUE
                           ELSE confirmDialogOpen)
  /\ UNCHANGED <<recQuery, recData, selectedCampaigns, applyLoading, applied>>
  /\ UNCHANGED nonRecVars

\* 'Cancel' in the dialog, or the dialog's onClose (backdrop, Escape)
CloseConfirmDialog ==
  /\ ConfirmDialogShown
  /\ confirmDialogOpen' = FALSE
  /\ UNCHANGED <<recQuery, recData, selectedCampaigns, applyLoading, applied>>
  /\ UNCHANGED nonRecVars

\* handleConfirmApply without setConfirmDialogOpen(false)
HandleConfirmApply_KeepsDialogOpen ==
  /\ ConfirmDialogShown
  /\ ~applyLoading
  /\ Len(applied) < MaxApplies
  /\ applied' = Append(applied, selectedCampaigns)
  /\ applyLoading' = TRUE
  /\ selectedCampaigns' = <<>>
  /\ UNCHANGED <<recQuery, recData, confirmDialogOpen>>
  /\ UNCHANGED nonRecVars

\* 'Apply Changes' in the dialog and its handler
HandleConfirmApply ==
  /\ ConfirmDialogShown
  /\ ~applyLoading
  /\ Len(applied) < MaxApplies
  /\ applied' = Append(applied, selectedCampaigns)
  /\ applyLoading' = TRUE
  /\ confirmDialogOpen' = FALSE
  /\ selectedCampaigns' = <<>>
  /\ UNCHANGED <<recQuery, recData>>
  /\ UNCHANGED nonRecVars

\* the apply request settles (onSuccess invalidates the queries, which then
\* refetch: FetchSucceeds / FetchFails)
ApplySettles ==
  /\ applyLoading
  /\ applyLoading' = FALSE
  /\ UNCHANGED <<recQuery, recData, selectedCampaigns, confirmDialogOpen,
                 applied>>
  /\ UNCHANGED nonRecVars

NextRec ==
  \/ \E recs \in RecommendationLists : FetchSucceeds(recs)
  \/ FetchFails
  \/ \E i \in 1..3 : ToggleCampaignSelection(i)
  \/ ToggleAll
  \/ ClearSelection
  \/ HandleApplySelected
  \/ CloseConfirmDialog
  \/ HandleConfirmApply
  \/ ApplySettles

(***************************************************************************)
(* Part 3 - App.js routes and the AuthProvider                             *)
(***************************************************************************)
\* the paths below the protected "/" route
ProtectedPaths ==
  {"/", "/dashboard", "/campaigns/1", "/shopping-campaign/create",
   "/pmax-campaign/create", "/merchant-feed"}

\* a path no route matches
UnroutedPath == "/recommendations"

Paths == ProtectedPaths \cup {"/login", UnroutedPath}

Accounts == {"acc1", "acc2"}

\* addresses typed into the login form
Emails == {"ann@example.com"}

\* ProtectedRoute without the isLoading branch
ProtectedRoute_NoLoadingBranch(authenticated, loading) ==
  IF ~authenticated THEN "navigate-login" ELSE "children"

\* ProtectedRoute without the isAuthenticated branch
ProtectedRoute_NoAuthBranch(authenticated, loading) ==
  IF loading THEN "spinner" ELSE "children"

\* ProtectedRoute: what the component returns
ProtectedRoute(authenticated, loading) ==
  IF loading THEN "spinner"
  ELSE IF ~authenticated THEN "navigate-login"
  ELSE "children"

\* AppRoutes: the element rendered at path p
RouteElement(p, authenticated, loading) ==
  IF p = "/login" THEN "login"
  ELSE IF p \in ProtectedPaths THEN ProtectedRoute(authenticated, loading)
  ELSE "nothing"

\* the location after rendering at p: <Navigate to="/login" /> moves on
Landing(p, authenticated, loading) ==
  IF RouteElement(p, authenticated, loading) = "navigate-login"
    THEN "/login" ELSE p

\* the screen after rendering at p and following a redirect
Rendered(p, authenticated, loading) ==
  LET q == Landing(p, authenticated, loading)
      e == RouteElement(q, authenticated, loading)
  IN IF e = "children" THEN <<"layout", q>> ELSE <<e, q>>

\* commit a new provider state / location: render and follow the redirect
Commit(p, authenticated, loading) ==
  /\ isAuthenticated' = authenticated
  /\ isLoading' = loading
  /\ path' = Landing(p, authenticated, loading)
  /\ screen' = Rendered(p, authenticated, loading)

\* the app is loaded at some URL: AuthProvider mounts, checkAuthStatus
\* starts its timer
InitRoutes ==
  /\ isAuthenticated = FALSE
  /\ isLoading = TRUE
  /\ user = Null
  /\ account = Null
  /\ authTimer = "pending"
  /\ path \in Paths
  /\ screen = Rendered(path, FALSE, TRUE)

\* the timer of checkAuthStatus fires and React applies its setState calls in
\* one batch
AuthTimerFires ==
  /\ authTimer = "pending"
  /\ authTimer' = "done"
  /\ user' = "demo@example.com"
  /\ Commit(path, TRUE, FALSE)
  /\ UNCHANGED account
  /\ UNCHANGED nonRouteVars

\* the timer fires and setIsAuthenticated(true) is rendered on its own
AuthTimerSetsAuthenticated ==
  /\ authTimer = "pending"
  /\ authTimer' = "half"
  /\ Commit(path, TRUE, isLoading)
  /\ UNCHANGED <<user, account>>
  /\ UNCHANGED nonRouteVars

\* ... followed by setUser(...) and setIsLoading(false)
AuthTimerSetsLoaded ==
  /\ authTimer = "half"
  /\ authTimer' = "done"
  /\ user' = "demo@example.com"
  /\ Commit(path, isAuthenticated, FALSE)
  /\ UNCHANGED account
  /\ UNCHANGED nonRouteVars

\* login(email, password) of the AuthProvider, called from the login page
Login(email) ==
  /\ screen[1] = "login"
  /\ user' = email
  /\ Commit(path, TRUE, FALSE)
  /\ UNCHANGED <<account, authTimer>>
  /\ UNCHANGED nonRouteVars

\* Layout.handleLogout: logout() of the AuthProvider, then navigate('/')
HandleLogout ==
  /\ screen[1] = "layout"
  /\ user' = Null
  /\ account' = Null
  /\ Commit("/", FALSE, FALSE)
  /\ UNCHANGED authTimer
  /\ UNCHANGED nonRouteVars

\* AppRoutes.handleAccountSelect
HandleAccountSelect(accountId) ==
  /\ screen = <<"layout", "/">>
  /\ account' = accountId
  /\ Commit("/dashboard", isAuthenticated, isLoading)
  /\ UNCHANGED <<user, authTimer>>
  /\ UNCHANGED nonRouteVars

\* a link, a navigate() call or the browser history moves to p
NavigateTo(p) ==
  /\ p # path
  /\ Commit(p, isAuthenticated, isLoading)
  /\ UNCHANGED <<user, account, authTimer>>
  /\ UNCHANGED nonRouteVars

NextRoutes ==
  \/ AuthTimerFires
  \/ AuthTimerSetsAuthenticated
  \/ AuthTimerSetsLoaded
  \/ \E email \in Emails : Login(email)
  \/ HandleLogout
  \/ \E accountId \in Accounts : HandleAccountSelect(accountId)
  \/ \E p \in Paths : NavigateTo(p)

(***************************************************************************)
(* Part 4 - pages/ShoppingCampaignCreate.js                                *)
(*                                                                         *)
(* The value of a text or number input is the text typed into it, a        *)
(* sequence of characters; the initial numbers 50 and 400 are written the  *)
(* same way, as JavaScript compares both forms by their numeric value.     *)
(***************************************************************************)
Digits == <<"0", "1", "2", "3", "4", "5", "6", "7", "8", "9">>

DigitValue(c) == (CHOOSE i \in 1..10 : Digits[i] = c) - 1

\* the number a string of digits denotes
RECURSIVE DigitsToNumber(_)
DigitsToNumber(text) ==
  IF text = <<>> THEN 0
  ELSE 10 * DigitsToNumber(SubSeq(text, 1, Len(text) - 1))
       + DigitValue(text[Len(text)])

\* JavaScript ToNumber of the value of a number input: '' is 0
ToNumber(text) ==
  IF text = <<>> THEN 0
  ELSE IF Head(text) = "-" THEN 0 - DigitsToNumber(Tail(text))
  ELSE DigitsToNumber(text)

\* texts typed into the name field, choices of the merchant select
CampaignNames == {"", "Summer"}
MerchantAccountIds == {"merchant1", "merchant2"}
BidStrategies == {"MAXIMIZE_CONVERSION_VALUE", "MAXIMIZE_CONVERSIONS", "MANUAL_CPC"}
\* values typed into the two number inputs
BudgetInputs == {<<>>, <<"0">>, <<"-", "5">>, <<"7", "5">>}
TargetRoasInputs == {<<>>, <<"9", "9">>, <<"1", "0", "0">>,
                     <<"1", "0", "0", "0", "0">>, <<"1", "0", "0", "0", "1">>}
\* selections the countries Autocomplete can hand over
CountrySelections == {<<>>, <<"United States">>, <<"Canada">>,
                      <<"United States", "Canada">>}

\* the last step of the wizard: steps.length - 1
ShopLastStep == 3

\* validateStep without the merchant account rule
ShopStepErrors_NoMerchantRule(step, form) ==
  (IF step = 0
     THEN (IF form.campaignName = "" THEN {"campaignName"} ELSE {})
          \cup (IF ToNumber(form.budget) <= 0 THEN {"budget"} ELSE {})
          \cup (IF form.bidStrategy = "MAXIMIZE_CONVERSION_VALUE"
                   /\ (ToNumber(form.targetRoas) < 100
                         \/ ToNumber(form.targetRoas) > 10000)
                  THEN {"targetRoas"} ELSE {})
     ELSE {})
  \cup
  (IF step = 1
     THEN (IF Len(form.countries) = 0 THEN {"countries"} ELSE {})
     ELSE {})

\* validateStep: the keys of newErrors
ShopStepErrors(step, form) ==
  (IF step = 0
     THEN (IF form.campaignName = "" THEN {"campaignName"} ELSE {})
          \cup (IF form.merchantAccount = "" THEN {"merchantAccount"} ELSE {})
          \cup (IF ToNumber(form.budget) <= 0 THEN {"budget"} ELSE {})
          \cup (IF form.bidStrategy = "MAXIMIZE_CONVERSION_VALUE"
                   /\ (ToNumber(form.targetRoas) < 100
                         \/ ToNumber(form.targetRoas) > 10000)
                  THEN {"targetRoas"} ELSE {})
     ELSE {})
  \cup
  (IF step = 1
     THEN (IF Len(form.countries) = 0 THEN {"countries"} ELSE {})
     ELSE {})

InitShop ==
  /\ shopActiveStep = 0
  /\ shopFormData = [campaignName |-> "",
                     merchantAccount |-> "",
                     budget |-> <<"5", "0">>,
                     bidStrategy |-> "MAXIMIZE_CONVERSION_VALUE",
                     targetRoas |-> <<"4", "0", "0">>,
                     countries |-> <<"United States">>,
                     includeYouTube |-> FALSE]
  /\ shopErrors = {}
  /\ shopIsLoading = FALSE
  /\ shopCreating = 0
  /\ shopMounted = TRUE

\* the content of step n is mounted: the vertical Stepper shows the content
\* of the active step only
ShopStepShown(n) == shopMounted /\ shopActiveStep = n

\* handleChange / handleCheckboxChange / handleMultiSelectChange
ShopSetField(name, value) ==
  /\ shopFormData' = [shopFormData EXCEPT ![name] = value]
  /\ UNCHANGED <<shopActiveStep, shopErrors, shopIsLoading, shopCreating,
                 shopMounted>>
  /\ UNCHANGED nonShopVars

\* the inputs of step 'Basic Settings'
ShopEditBasicSettings ==
  /\ ShopStepShown(0)
  /\ \/ \E v \in CampaignNames : ShopSetField("campaignName", v)
     \/ \E v \in MerchantAccountIds : ShopSetField("merchantAccount", v)
     \/ \E v \in BudgetInputs : ShopSetField("budget", v)
     \/ \E v \in BidStrategies : ShopSetField("bidStrategy", v)
     \/ /\ shopFormData.bidStrategy = "MAXIMIZE_CONVERSION_VALUE"
        /\ \E v \in TargetRoasInputs : ShopSetField("targetRoas", v)

\* the countries Autocomplete of step 'Product Selection & Targeting'
ShopEditTargeting ==
  /\ ShopStepShown(1)
  /\ \E v \in CountrySelections : ShopSetField("countries", v)

\* a checkbox of step 'Networks & Additional Settings'
ShopEditNetworks ==
  /\ ShopStepShown(2)
  /\ \E v \in BOOLEAN : ShopSetField("includeYouTube", v)

\* the 'Continue' button
ShopHandleNext ==
  /\ shopMounted
  /\ shopActiveStep # ShopLastStep
  /\ shopErrors' = ShopStepErrors(shopActiveStep, shopFormData)
  /\ shopActiveStep' = IF ShopStepErrors(shopActiveStep, shopFormData) = {}
                         THEN shopActiveStep + 1 ELSE shopActiveStep
  /\ UNCHANGED <<shopFormData, shopIsLoading, shopCreating, shopMounted>>
  /\ UNCHANGED nonShopVars

\* the 'Back' button, disabled on the first step
ShopHandleBack ==
  /\ shopMounted
  /\ shopActiveStep # 0
  /\ shopActiveStep' = shopActiveStep - 1
  /\ UNCHANGED <<shopFormData, shopErrors, shopIsLoading, shopCreating,
                 shopMounted>>
  /\ UNCHANGED nonShopVars

\* the 'Create Campaign' buttons of the last step, disabled while loading
ShopHandleSubmit ==
  /\ ShopStepShown(ShopLastStep)
  /\ ~shopIsLoading
  /\ shopErrors' = ShopStepErrors(shopActiveStep, shopFormData)
  /\ IF ShopStepErrors(shopActiveStep, shopFormData) = {}
       THEN /\ shopIsLoading' = TRUE
            /\ shopCreating' = shopCreating + 1
       ELSE UNCHANGED <<shopIsLoading, shopCreating>>
  /\ UNCHANGED <<shopActiveStep, shopFormData, shopMounted>>
  /\ UNCHANGED nonShopVars

\* the timer started by handleSubmit: setIsLoading(false), navigate('/dashboard')
ShopCreationCompletes ==
  /\ shopIsLoading
  /\ shopIsLoading' = FALSE
  /\ shopMounted' = FALSE
  /\ UNCHANGED <<shopActiveStep, shopFormData, shopErrors, shopCreating>>
  /\ UNCHANGED nonShopVars

\* the 'Back to Dashboard' button
ShopBackToDashboard ==
  /\ shopMounted
  /\ shopMounted' = FALSE
  /\ UNCHANGED <<shopActiveStep, shopFormData, shopErrors, shopIsLoading,
                 shopCreating>>
  /\ UNCHANGED nonShopVars

NextShop ==
  \/ ShopEditBasicSettings
  \/ ShopEditTargeting
  \/ ShopEditNetworks
  \/ ShopHandleNext
  \/ ShopHandleBack
  \/ ShopHandleSubmit
  \/ ShopCreationCompletes
  \/ ShopBackToDashboard

(***************************************************************************)
(* Part 5 - PerformanceMaxCreate                                           *)
(*                                                                         *)
(* A headline or description text is represented by its number of          *)
(* characters.  In one behaviour the user experiments with one group of    *)
(* controls (pmaxFocus): the inputs of the other groups only receive the   *)
(* values needed to pass their step.                                       *)
(***************************************************************************)
AssetTypes == {"headlines", "descriptions", "images", "logos"}

FocusGroups == {"basic", "targeting"} \cup AssetTypes

FinalUrls == {"", "https://www.example.com/shop"}
PmaxBidStrategies == {"MAXIMIZE_CONVERSION_VALUE", "MAXIMIZE_CONVERSIONS"}
PmaxBudgetInputs == {<<"0">>, <<"7", "5">>}
PmaxTargetRoasInputs == {<<"9", "9">>, <<"1", "0", "0">>}
PmaxCountrySelections == {<<>>, <<"United States">>}
ConversionActionIds == {"conv1", "conv2"}

\* numbers of characters of the texts typed into a headline / description
HeadlineInputs == {31}
DescriptionInputs == {91}

\* the asset counts below which validateStep(2) reports an error, which are
\* also the counts at which the Delete buttons are disabled
MinAssets ==
  [headlines |-> 3, descriptions |-> 2, images |-> 1, logos |-> 1]

MaxAssets ==
  [headlines |-> MaxHeadlines, descriptions |-> MaxDescriptions,
   images |-> MaxImages, logos |-> MaxLogos]

TextAsset(id, chars) == [id |-> id, text |-> chars]
MediaAsset(id) == [id |-> id]

defaultAssets ==
  [images |-> <<MediaAsset("img1"), MediaAsset("img2")>>,
   logos |-> <<MediaAsset("logo1")>>,
   headlines |-> <<TextAsset("h1", 23), TextAsset("h2", 27),
                   TextAsset("h3", 30)>>,
   descriptions |-> <<TextAsset("d1", 84), TextAsset("d2", 62)>>]

\* the last step of the wizard: steps.length - 1
PmaxLastStep == 3

\* validateStep without the headline count rule
PmaxStepErrors_NoHeadlineRule(step, form) ==
  (IF step = 0
     THEN (IF form.campaignName = "" THEN {"campaignName"} ELSE {})
          \cup (IF form.merchantAccount = "" THEN {"merchantAccount"} ELSE {})
          \cup (IF ToNumber(form.budget) <= 0 THEN {"budget"} ELSE {})
          \cup (IF form.bidStrategy = "MAXIMIZE_CONVERSION_VALUE"
                   /\ (ToNumber(form.targetRoas) < 100
                         \/ ToNumber(form.targetRoas) > 10000)
                  THEN {"targetRoas"} ELSE {})
          \cup (IF form.finalUrl = "" THEN {"finalUrl"} ELSE {})
     ELSE {})
  \cup
  (IF step = 1
     THEN (IF Len(form.countries) = 0 THEN {"countries"} ELSE {})
          \cup (IF Len(form.conversionGoals) = 0 THEN {"conversionGoals"}
                ELSE {})
     ELSE {})
  \cup
  (IF step = 2
     THEN (IF Len(form.assets.descriptions) < 2 THEN {"descriptions"} ELSE {})
          \cup (IF Len(form.assets.images) < 1 THEN {"images"} ELSE {})
          \cup (IF Len(form.assets.logos) < 1 THEN {"logos"} ELSE {})
     ELSE {})

\* validateStep: the keys of newErrors
PmaxStepErrors(step, form) ==
  (IF step = 0
     THEN (IF form.campaignName = "" THEN {"campaignName"} ELSE {})
          \cup (IF form.merchantAccount = "" THEN {"merchantAccount"} ELSE {})
          \cup (IF ToNumber(form.budget) <= 0 THEN {"budget"} ELSE {})
          \cup (IF form.bidStrategy = "MAXIMIZE_CONVERSION_VALUE"
                   /\ (ToNumber(form.targetRoas) < 100
                         \/ ToNumber(form.targetRoas) > 10000)
                  THEN {"targetRoas"} ELSE {})
          \cup (IF form.finalUrl = "" THEN {"finalUrl"} ELSE {})
     ELSE {})
  \cup
  (IF step = 1
     THEN (IF Len(form.countries) = 0 THEN {"countries"} ELSE {})
          \cup (IF Len(form.conversionGoals) = 0 THEN {"conversionGoals"}
                ELSE {})
     ELSE {})
  \cup
  (IF step = 2
     THEN (IF Len(form.assets.headlines) < 3 THEN {"headlines"} ELSE {})
          \cup (IF Len(form.assets.descriptions) < 2 THEN {"descriptions"}
                ELSE {})
          \cup (IF Len(form.assets.images) < 1 THEN {"images"} ELSE {})
          \cup (IF Len(form.assets.logos) < 1 THEN {"logos"} ELSE {})
     ELSE {})

InitPmax ==
  /\ pmaxActiveStep = 0
  /\ pmaxFormData = [campaignName |-> "",
                     merchantAccount |-> "",
                     budget |-> <<"5", "0">>,
                     bidStrategy |-> "MAXIMIZE_CONVERSION_VALUE",
                     targetRoas |-> <<"4", "0", "0">>,
                     finalUrl |-> "https://www.example.com/shop",
                     countries |-> <<"United States">>,
                     conversionGoals |-> <<"conv1">>,
                     assets |-> defaultAssets]
  /\ pmaxErrors = {}
  /\ pmaxIsLoading = FALSE
  /\ pmaxCreating = 0
  /\ pmaxMounted = TRUE
  /\ pmaxFocus \in FocusGroups

\* the page as constructed, for the specifications of the other parts
IdlePmax ==
  /\ InitPmax
  /\ pmaxFocus = "basic"

\* the content of step n is mounted
PmaxStepShown(n) == pmaxMounted /\ pmaxActiveStep = n

\* handleChange / handleArrayChange / handleMultiSelectChange
PmaxSetField(name, value) ==
  /\ pmaxFormData' = [pmaxFormData EXCEPT ![name] = value]
  /\ UNCHANGED <<pmaxActiveStep, pmaxErrors, pmaxIsLoading, pmaxCreating,
                 pmaxMounted, pmaxFocus>>
  /\ UNCHANGED nonPmaxVars

\* setFormData({...formData, assets: {...formData.assets, [assetType]: list}})
PmaxSetAssets(assetType, list) ==
  /\ pmaxFormData' = [pmaxFormData EXCEPT !.assets[assetType] = list]
  /\ UNCHANGED <<pmaxActiveStep, pmaxErrors, pmaxIsLoading, pmaxCreating,
                 pmaxMounted, pmaxFocus>>
  /\ UNCHANGED nonPmaxVars

\* the inputs of step 'Basic Settings'
PmaxEditBasicSettings ==
  /\ PmaxStepShown(0)
  /\ \/ PmaxSetField("campaignName", "Summer")
     \/ PmaxSetField("merchantAccount", "merchant1")
     \/ /\ pmaxFocus = "basic"
        /\ \/ PmaxSetField("campaignName", "")
           \/ \E v \in PmaxBudgetInputs : PmaxSetField("budget", v)
           \/ \E v \in PmaxBidStrategies : PmaxSetField("bidStrategy", v)
           \/ /\ pmaxFormData.bidStrategy = "MAXIMIZE_CONVERSION_VALUE"
              /\ \E v \in PmaxTargetRoasInputs : PmaxSetField("targetRoas", v)
           \/ \E v \in FinalUrls : PmaxSetField("finalUrl", v)

\* the countries Autocomplete and the conversion goal checkboxes of step
\* 'Targeting & Conversion Goals'
PmaxEditTargeting ==
  /\ PmaxStepShown(1)
  /\ pmaxFocus = "targeting"
  /\ \/ \E v \in PmaxCountrySelections : PmaxSetField("countries", v)
     \/ \E id \in ConversionActionIds :
          PmaxSetField("conversionGoals",
            IF Includes(pmaxFormData.conversionGoals, id)
              THEN Without(pmaxFormData.conversionGoals, id)
              ELSE Append(pmaxFormData.conversionGoals, id))

\* the text field of headline / description number index
PmaxEditText(assetType, index, chars) ==
  /\ PmaxStepShown(2)
  /\ pmaxFocus = assetType
  /\ index \in 1..Len(pmaxFormData.assets[assetType])
  /\ PmaxSetAssets(assetType,
       [pmaxFormData.assets[assetType] EXCEPT ![index].text = chars])

\* the element addAsset appends: { id: `${assetType}${length + 1}`, ...asset }
NewAsset(assetType, length) ==
  IF assetType \in {"headlines", "descriptions"}
    THEN TextAsset(assetType \o ToString(length + 1), 0)
    ELSE MediaAsset(assetType \o ToString(length + 1))

\* 'Add Headline', 'Add Description', 'Upload Image', 'Upload Logo'
PmaxAddAsset(assetType) ==
  /\ PmaxStepShown(2)
  /\ pmaxFocus = assetType
  /\ Len(pmaxFormData.assets[assetType]) < MaxAssets[assetType]
  /\ PmaxSetAssets(assetType,
       Append(pmaxFormData.assets[assetType],
              NewAsset(assetType, Len(pmaxFormData.assets[assetType]))))

\* the Delete button of the asset at position index, disabled while the list
\* is at its minimum length
PmaxRemoveAsset(assetType, index) ==
  /\ PmaxStepShown(2)
  /\ pmaxFocus = assetType
  /\ index \in 1..Len(pmaxFormData.assets[assetType])
  /\ ~(Len(pmaxFormData.assets[assetType]) <= MinAssets[assetType])
  /\ LET assetId == pmaxFormData.assets[assetType][index].id IN
       PmaxSetAssets(assetType,
         SelectSeq(pmaxFormData.assets[assetType],
                   LAMBDA a : a.id # assetId))

\* the 'Continue' button
PmaxHandleNext ==
  /\ pmaxMounted
  /\ pmaxActiveStep # PmaxLastStep
  /\ pmaxErrors' = PmaxStepErrors(pmaxActiveStep, pmaxFormData)
  /\ pmaxActiveStep' = IF PmaxStepErrors(pmaxActiveStep, pmaxFormData) = {}
                         THEN pmaxActiveStep + 1 ELSE pmaxActiveStep
  /\ UNCHANGED <<pmaxFormData, pmaxIsLoading, pmaxCreating, pmaxMounted,
                 pmaxFocus>>
  /\ UNCHANGED nonPmaxVars

\* the 'Back' button, disabled on the first step
PmaxHandleBack ==
  /\ pmaxMounted
  /\ pmaxActiveStep # 0
  /\ pmaxActiveStep' = pmaxActiveStep - 1
  /\ UNCHANGED <<pmaxFormData, pmaxErrors, pmaxIsLoading, pmaxCreating,
                 pmaxMounted, pmaxFocus>>
  /\ UNCHANGED nonPmaxVars

\* the 'Create Campaign' buttons of the last step, disabled while loading
PmaxHandleSubmit ==
  /\ PmaxStepShown(PmaxLastStep)
  /\ ~pmaxIsLoading
  /\ pmaxErrors' = PmaxStepErrors(pmaxActiveStep, pmaxFormData)
  /\ IF PmaxStepErrors(pmaxActiveStep, pmaxFormData) = {}
       THEN /\ pmaxIsLoading' = TRUE
            /\ pmaxCreating' = pmaxCreating + 1
       ELSE UNCHANGED <<pmaxIsLoading, pmaxCreating>>
  /\ UNCHANGED <<pmaxActiveStep, pmaxFormData, pmaxMounted, pmaxFocus>>
  /\ UNCHANGED nonPmaxVars

\* the timer started by handleSubmit: setIsLoading(false), navigate('/dashboard')
PmaxCreationCompletes ==
  /\ pmaxIsLoading
  /\ pmaxIsLoading' = FALSE
  /\ pmaxMounted' = FALSE
  /\ UNCHANGED <<pmaxActiveStep, pmaxFormData, pmaxErrors, pmaxCreating,
                 pmaxFocus>>
  /\ UNCHANGED nonPmaxVars

\* the 'Back to Dashboard' button
PmaxBackToDashboard ==
  /\ pmaxMounted
  /\ pmaxMounted' = FALSE
  /\ UNCHANGED <<pmaxActiveStep, pmaxFormData, pmaxErrors, pmaxIsLoading,
                 pmaxCreating, pmaxFocus>>
  /\ UNCHANGED nonPmaxVars

NextPmax ==
  \/ PmaxEditBasicSettings
  \/ PmaxEditTargeting
  \/ \E assetType \in {"headlines"}, index \in 1..MaxHeadlines,
        chars \in HeadlineInputs : PmaxEditText(assetType, index, chars)
  \/ \E assetType \in {"descriptions"}, index \in 1..MaxDescriptions,
        chars \in DescriptionInputs : PmaxEditText(assetType, index, chars)
  \/ \E assetType \in AssetTypes : PmaxAddAsset(assetType)
  \/ \E assetType \in AssetTypes, index \in 1..MaxHeadlines :
        PmaxRemoveAsset(assetType, index)
  \/ PmaxHandleNext
  \/ PmaxHandleBack
  \/ PmaxHandleSubmit
  \/ PmaxCreationCompletes
  \/ PmaxBackToDashboard

(***************************************************************************)
(* Part 6 - the alternate api client (unnamed/part_006)                    *)
(***************************************************************************)
\* paths the document may have been loaded on
AltPaths == {"/", "/dashboard"}

\* api.interceptors.request.use of part_006
AltRequestInterceptor(header, token) ==
  IF Truthy(token) THEN Bearer(token) ELSE header

InitAlt ==
  /\ echelon_token \in StoredTokens
  /\ pathname \in AltPaths
  /\ href = Null
  /\ altPc = [r \in Requests |-> "idle"]
  /\ altHdr = [r \in Requests |-> NoHeader]
  /\ altSends = [r \in Requests |-> 0]
  /\ altLastStatus = [r \in Requests |-> 0]
  /\ altOutcome = [r \in Requests |-> Pending]

\* a caller invokes one of the apiService methods
AltSendRequest(r) ==
  /\ altPc[r] = "idle"
  /\ altHdr' = [altHdr EXCEPT ![r] = AltRequestInterceptor(NoHeader, echelon_token)]
  /\ altSends' = [altSends EXCEPT ![r] = 1]
  /\ altPc' = [altPc EXCEPT ![r] = "inflight"]
  /\ UNCHANGED <<echelon_token, pathname, href, altLastStatus, altOutcome>>
  /\ UNCHANGED nonAltVars

\* a 2xx reply: the response interceptor returns the response unchanged
AltReceiveResponse(r) ==
  /\ altPc[r] = "inflight"
  /\ altLastStatus' = [altLastStatus EXCEPT ![r] = 200]
  /\ altOutcome' = [altOutcome EXCEPT ![r] = Resolved(200, altSends[r])]
  /\ altPc' = [altPc EXCEPT ![r] = "done"]
  /\ UNCHANGED <<echelon_token, pathname, href, altHdr, altSends>>
  /\ UNCHANGED nonAltVars

\* the error handler without the test of window.location.pathname
AltReceiveError_NoPathTest(r, status) ==
  /\ altPc[r] = "inflight"
  /\ altLastStatus' = [altLastStatus EXCEPT ![r] = status]
  /\ IF status = 401
       THEN /\ echelon_token' = Null
            /\ href' = "/"
       ELSE UNCHANGED <<echelon_token, href>>
  /\ altOutcome' = [altOutcome EXCEPT ![r] = Rejected(status, altSends[r])]
  /\ altPc' = [altPc EXCEPT ![r] = "done"]
  /\ UNCHANGED <<pathname, altHdr, altSends>>
  /\ UNCHANGED nonAltVars

\* an error reply (status 0: an error without a response, such as the
\* 10 s timeout): the error handler of the response interceptor
AltReceiveError(r, status) ==
  /\ altPc[r] = "inflight"
  /\ altLastStatus' = [altLastStatus EXCEPT ![r] = status]
  /\ IF status = 401
       THEN /\ echelon_token' = Null
            /\ href' = IF pathname # "/" THEN "/" ELSE href
       ELSE UNCHANGED <<echelon_token, href>>
  /\ altOutcome' = [altOutcome EXCEPT ![r] = Rejected(status, altSends[r])]
  /\ altPc' = [altPc EXCEPT ![r] = "done"]
  /\ UNCHANGED <<pathname, altHdr, altSends>>
  /\ UNCHANGED nonAltVars

\* the navigation started by the assignment to window.location.href loads
\* the new document: the script state of the old one is gone, localStorage
\* stays
AltNavigationCommits ==
  /\ href # Null
  /\ pathname' = href
  /\ href' = Null
  /\ altPc' = [r \in Requests |-> "idle"]
  /\ altHdr' = [r \in Requests |-> NoHeader]
  /\ altSends' = [r \in Requests |-> 0]
  /\ altLastStatus' = [r \in Requests |-> 0]
  /\ altOutcome' = [r \in Requests |-> Pending]
  /\ UNCHANGED echelon_token
  /\ UNCHANGED nonAltVars

NextAlt ==
  \/ \E r \in Requests :
       \/ AltSendRequest(r)
       \/ AltReceiveResponse(r)
       \/ \E status \in ErrorStatuses : AltReceiveError(r, status)
  \/ AltNavigationCommits

(***************************************************************************)
(* Specifications                                                          *)
(***************************************************************************)
\* the api client before any request, with nothing stored
IdleApi ==
  /\ InitApi
  /\ authToken = Null
  /\ refreshToken = Null

\* the app loaded on the login page
IdleRoutes ==
  /\ InitRoutes
  /\ path = "/login"

\* the alternate client before any request, loaded on '/' with nothing
\* stored
IdleAlt ==
  /\ InitAlt
  /\ echelon_token = Null
  /\ pathname = "/"

\* the state after construction: the part under study as its Init describes
\* it, the other parts idle
StartApi ==
  InitApi /\ InitRec /\ IdleRoutes /\ InitShop /\ IdlePmax /\ IdleAlt
StartRec ==
  IdleApi /\ InitRec /\ IdleRoutes /\ InitShop /\ IdlePmax /\ IdleAlt
StartRoutes ==
  IdleApi /\ InitRec /\ InitRoutes /\ InitShop /\ IdlePmax /\ IdleAlt
StartShop ==
  IdleApi /\ InitRec /\ IdleRoutes /\ InitShop /\ IdlePmax /\ IdleAlt
StartPmax ==
  IdleApi /\ InitRec /\ IdleRoutes /\ InitShop /\ InitPmax /\ IdleAlt
StartAlt ==
  IdleApi /\ InitRec /\ IdleRoutes /\ InitShop /\ IdlePmax /\ InitAlt

SpecApi == StartApi /\ [][NextApi]_vars

SpecRec == StartRec /\ [][NextRec]_vars

SpecRoutes == StartRoutes /\ [][NextRoutes]_vars

SpecShop == StartShop /\ [][NextShop]_vars

SpecPmax == StartPmax /\ [][NextPmax]_vars

SpecAlt == StartAlt /\ [][NextAlt]_vars

(***************************************************************************)
(* Claims about services/api.js                                            *)
(***************************************************************************)
\* the step in which request r goes on the wire (first send or re-send)
GoesOnWire(r) == pc[r] # "inflight" /\ pc'[r] = "inflight"

\* the step in which the reply to request r is handled
ReplyHandled(r) == pc[r] = "inflight" /\ pc'[r] # "inflight"

\* C1 as stated: every request that goes on the wire carries
\* Authorization = 'Bearer ' + T exactly when localStorage holds a non-empty
\* authToken T when the request interceptor runs, and no Authorization
\* header otherwise.
C1_HeaderIffStoredToken ==
  [][\A r \in Requests : GoesOnWire(r) =>
        hdr'[r] = (IF Truthy(authToken') THEN Bearer(authToken') ELSE NoHeader)
    ]_vars

\* C1 amended: a request that goes on the wire carries 'Bearer ' + T when
\* localStorage holds a non-empty authToken T when the request interceptor
\* runs; otherwise the interceptor leaves the config as it received it: a
\* first send carries no Authorization header and a re-send keeps the
\* 'Bearer ' + access_token header that the response interceptor set.
C1_HeaderFromStoredToken ==
  [][\A r \in Requests : GoesOnWire(r) =>
        hdr'[r] = (IF Truthy(authToken') THEN Bearer(authToken')
                   ELSE IF pc[r] = "idle" THEN NoHeader
                   ELSE Bearer(refreshData'[r]))
    ]_vars

\* C1 witness: one request was re-sent after a refresh that returned an empty
\* access_token, another one was first sent with the stored token in its
\* header
C1_Witness ==
  \E r, q \in Requests :
    /\ pc[r] = "inflight" /\ sends[r] = 2 /\ hdr[r] = "Bearer "
    /\ pc[q] = "done" /\ sends[q] = 1 /\ hdr[q] = "Bearer tok0"

\* C2: a 401 on a request not yet retried, with a refresh token stored, makes
\* the handler POST /auth/refresh with that refresh token while the caller's
\* promise stays pending; when the refresh succeeds the returned
\* access_token is stored as authToken and the request is re-sent with
\* Authorization = 'Bearer ' + access_token; the caller's promise settles
\* with the outcome of the re-sent request.
C2_RefreshOn401 ==
  [][\A r \in Requests :
        /\ (ReplyHandled(r) /\ lastStatus'[r] = 401 /\ ~retry[r]
              /\ Truthy(refreshToken))
             => /\ pc'[r] = "refreshing"
                /\ refreshBody'[r] = refreshToken
                /\ refreshes'[r] = refreshes[r] + 1
                /\ outcome'[r] = Pending
                /\ sends'[r] = sends[r]
        /\ (pc[r] = "refreshing" /\ refreshData'[r] # Null)
             => /\ authToken' = refreshData'[r]
                /\ hdr'[r] = Bearer(refreshData'[r])
                /\ sends'[r] = 2
                /\ pc'[r] = "inflight"
                /\ outcome'[r] = Pending
        /\ (ReplyHandled(r) /\ refreshData[r] # Null)
             => /\ pc'[r] = "done"
                /\ outcome'[r] \in {Resolved(lastStatus'[r], 2),
                                    Rejected(lastStatus'[r], 2)}
    ]_vars

\* C2 witness: a request got 401, refreshed, was re-sent and its caller
\* received the response of the re-sent request
C2_Witness ==
  \E r \in Requests :
    /\ pc[r] = "done" /\ refreshes[r] = 1 /\ refreshBody[r] = "ref0"
    /\ refreshData[r] = "tok1" /\ hdr[r] = "Bearer tok1"
    /\ outcome[r] = Resolved(200, 2)

\* C3: an error reply whose status is not 401, or an error without a
\* response, is rejected to the caller as it is; no refresh call is made,
\* nothing is re-sent, and authToken, refreshToken and the location are left
\* as they were.
C3_OtherErrorsSurfaced ==
  [][\A r \in Requests :
        (ReplyHandled(r) /\ lastStatus'[r] \in {0, 500})
          => /\ pc'[r] = "done"
             /\ outcome'[r] = Rejected(lastStatus'[r], sends[r])
             /\ refreshes' = refreshes
             /\ sends' = sends
             /\ UNCHANGED <<authToken, refreshToken, location>>
    ]_vars

\* C3 witness: a first attempt failed with 500 and one failed without any
\* response, both rejected to their callers with tokens in place
C3_Witness ==
  \E r, q \in Requests :
    /\ outcome[r] = Rejected(500, 1) /\ outcome[q] = Rejected(0, 1)
    /\ authToken = "tok0" /\ refreshToken = "ref0" /\ location = "/dashboard"

\* position of request r in its handling: every step of r lowers it
Rank(r) ==
  CASE pc[r] = "idle" -> 4
    [] pc[r] = "inflight" /\ ~retry[r] -> 3
    [] pc[r] = "refreshing" -> 2
    [] pc[r] = "inflight" /\ retry[r] -> 1
    [] OTHER -> 0

\* C9: one original request causes at most one refresh call and at most one
\* re-send; a 401 on the re-sent request is rejected to the caller without a
\* further refresh; handling terminates, since every step of a request
\* lowers its rank.
C9_BoundedRetry ==
  /\ [](\A r \in Requests : refreshes[r] <= 1 /\ sends[r] <= 2)
  /\ [][\A r \in Requests :
          /\ (ReplyHandled(r) /\ sends[r] = 2 /\ lastStatus'[r] = 401)
               => /\ pc'[r] = "done"
                  /\ outcome'[r] = Rejected(401, 2)
                  /\ refreshes'[r] = refreshes[r]
          /\ (pc'[r] # pc[r] \/ sends'[r] # sends[r]
                \/ refreshes'[r] # refreshes[r])
               => Rank(r)' < Rank(r)
      ]_vars

\* C9 witness: the server answered 401 to the request and to its re-send
C9_Witness ==
  \E r \in Requests :
    /\ pc[r] = "done" /\ sends[r] = 2 /\ refreshes[r] = 1
    /\ outcome[r] = Rejected(401, 2)

\* C10: when the refresh call fails, authToken and refreshToken are removed,
\* the location becomes /login, the original request is not re-sent and the
\* caller is rejected with the original 401 error.
C10_RefreshFailure ==
  [][\A r \in Requests :
        (pc[r] = "refreshing" /\ pc'[r] # "refreshing"
           /\ refreshData'[r] = Null)
          => /\ authToken' = Null
             /\ refreshToken' = Null
             /\ location' = "/login"
             /\ sends'[r] = sends[r]
             /\ pc'[r] = "done"
             /\ outcome'[r] = Rejected(401, 1)
    ]_vars

\* C10 witness: a refresh failed and the caller got the original 401
C10_Witness ==
  \E r \in Requests :
    /\ pc[r] = "done" /\ refreshes[r] = 1 /\ refreshData[r] = Null
    /\ sends[r] = 1 /\ outcome[r] = Rejected(401, 1)
    /\ authToken = Null /\ refreshToken = Null /\ location = "/login"

\* the step in which the catch block of request r runs: its refresh call
\* failed
RefreshCallFails(r) ==
  pc[r] = "refreshing" /\ pc'[r] = "done" /\ refreshData'[r] = Null

\* C11: authToken and refreshToken are removed and the location is changed
\* only by a step in which a refresh call fails; a 401 received while no
\* refreshToken is stored is rejected to the caller without a refresh call,
\* with authToken, refreshToken and the location as they were; a failure of
\* the re-sent request is rejected to the caller with authToken,
\* refreshToken and the location as they were.
C11_LogoutOnlyOnRefreshFailure ==
  /\ [][((authToken # Null /\ authToken' = Null)
           \/ refreshToken' # refreshToken
           \/ location' # location)
          => \E r \in Requests : RefreshCallFails(r)
      ]_vars
  /\ [][\A r \in Requests :
          (ReplyHandled(r) /\ lastStatus'[r] = 401 /\ ~retry[r]
             /\ ~Truthy(refreshToken))
            => /\ pc'[r] = "done"
               /\ outcome'[r] = Rejected(401, 1)
               /\ refreshes' = refreshes
               /\ sends' = sends
               /\ UNCHANGED <<authToken, refreshToken, location>>
      ]_vars
  /\ [][\A r \in Requests :
          (ReplyHandled(r) /\ sends[r] = 2 /\ lastStatus'[r] # 200)
            => /\ pc'[r] = "done"
               /\ outcome'[r] = Rejected(lastStatus'[r], 2)
               /\ refreshes' = refreshes
               /\ UNCHANGED <<authToken, refreshToken, location>>
      ]_vars

\* C11 witness: a refresh stored a new token, the re-sent request failed and
\* was rejected to the caller, and the new authToken and the refreshToken
\* are still stored and the location is the one the page was on
C11_Witness ==
  \E r \in Requests :
    /\ pc[r] = "done" /\ refreshData[r] = "tok2"
    /\ outcome[r] = Rejected(500, 2)
    /\ authToken = "tok2" /\ refreshToken = "ref0"
    /\ location = "/dashboard"

\* everything the handler keeps per request
OwnState(r) ==
  <<pc[r], hdr[r], retry[r], sends[r], refreshes[r], refreshBody[r],
    refreshData[r], lastStatus[r], outcome[r]>>

\* C12: a request that receives its first 401 while a refreshToken is stored
\* issues its own POST /auth/refresh, whatever the other requests are doing
\* (also while another refresh call is in progress), and a successful
\* refresh re-sends its own request only; neither step touches the state of
\* any other request.
C12_NoRefreshCoordination ==
  [][\A r \in Requests :
        /\ (ReplyHandled(r) /\ lastStatus'[r] = 401 /\ ~retry[r]
              /\ Truthy(refreshToken))
             => /\ pc'[r] = "refreshing"
                /\ refreshes'[r] = refreshes[r] + 1
                /\ refreshBody'[r] = refreshToken
                /\ \A q \in Requests \ {r} : OwnState(q)' = OwnState(q)
        /\ (pc[r] = "refreshing" /\ refreshData'[r] # Null)
             => /\ pc'[r] = "inflight"
                /\ sends'[r] = sends[r] + 1
                /\ \A q \in Requests \ {r} : OwnState(q)' = OwnState(q)
    ]_vars

\* C12 witness: two refresh calls are in progress at the same time, one per
\* request that received a 401
C12_Witness ==
  \E r, q \in Requests :
    /\ r # q
    /\ pc[r] = "refreshing" /\ pc[q] = "refreshing"
    /\ refreshes[r] = 1 /\ refreshes[q] = 1
    /\ refreshBody[r] = "ref0" /\ refreshBody[q] = "ref0"

\* C13: once a failed refresh has removed authToken and refreshToken and
\* sent the page to /login, localStorage holds no authToken that a request
\* would carry: no later step of the interceptor writes one back.
C13_NoTokenAfterForcedLogout ==
  (location = "/login") => ~Truthy(authToken)

(***************************************************************************)
(* Claims about the Recommendations page                                   *)
(***************************************************************************)
\* C4: the apply request is sent only from the open confirmation dialog,
\* with the campaigns selected at that moment, and never with an empty
\* list; the dialog opens only from 'Apply Selected' with a non-empty
\* selection and, while it is open, the selection stays non-empty.
C4_HumanInTheLoop ==
  /\ [](confirmDialogOpen => Len(selectedCampaigns) > 0)
  /\ [][(~confirmDialogOpen /\ confirmDialogOpen')
          => (/\ RecContentRendered
              /\ Len(selectedCampaigns) > 0
              /\ selectedCampaigns' = selectedCampaigns)]_vars
  /\ [][(applied' # applied)
          => (/\ ConfirmDialogShown
              /\ Len(selectedCampaigns) > 0
              /\ applied' = Append(applied, selectedCampaigns))]_vars

\* C4 witness: two campaigns were selected, confirmed and sent
C4_Witness ==
  /\ Len(applied) > 0
  /\ applied[1] = <<"c2", "c1">>
  /\ ~confirmDialogOpen
  /\ selectedCampaigns = <<>>
  /\ applyLoading

(***************************************************************************)
(* Claims about App.js                                                     *)
(***************************************************************************)
\* C5: on a path below the protected route, a spinner and nothing else is
\* rendered while isLoading is true, and Layout is rendered when isLoading
\* is false and isAuthenticated is true; when isLoading is false and
\* isAuthenticated is false the location is /login and the login page is
\* rendered; Layout is rendered in no other case.
C5_ProtectedRoutes ==
  /\ (path \in ProtectedPaths) =>
       (IF isLoading THEN screen = <<"spinner", path>>
        ELSE isAuthenticated /\ screen = <<"layout", path>>)
  /\ (screen[1] = "layout") =>
       (~isLoading /\ isAuthenticated /\ screen[2] \in ProtectedPaths)
  /\ (~isLoading /\ ~isAuthenticated) => (screen[1] \in {"login", "nothing"})

\* C5 witness: after a logout redirected to /login, a login and an account
\* selection, the dashboard is rendered inside Layout
C5_Witness ==
  /\ screen = <<"layout", "/dashboard">>
  /\ user = "ann@example.com"
  /\ account = "acc2"
  /\ authTimer = "done"

(***************************************************************************)
(* Claims about ShoppingCampaignCreate                                     *)
(***************************************************************************)
\* the rules of validateStep(0), read off the form
ShopBasicSettingsValid(form) ==
  /\ form.campaignName # ""
  /\ form.merchantAccount # ""
  /\ ToNumber(form.budget) > 0
  /\ form.bidStrategy = "MAXIMIZE_CONVERSION_VALUE"
       => (100 <= ToNumber(form.targetRoas)
             /\ ToNumber(form.targetRoas) <= 10000)

\* C6: whenever activeStep >= 1 the form has a campaign name, a merchant
\* account, budget > 0 and, for MAXIMIZE_CONVERSION_VALUE, a target ROAS in
\* 100..10000; whenever activeStep >= 2 it has a country; a creation only
\* starts with a form that satisfies all of these.
C6_ShoppingWizardGating ==
  /\ [](shopActiveStep >= 1 => ShopBasicSettingsValid(shopFormData))
  /\ [](shopActiveStep >= 2 => Len(shopFormData.countries) > 0)
  /\ [][shopCreating' # shopCreating
          => /\ ShopBasicSettingsValid(shopFormData)
             /\ Len(shopFormData.countries) > 0
      ]_vars

\* C6 witness: a creation started after the user went back and changed the
\* basic settings and the countries
C6_Witness ==
  /\ shopCreating = 1
  /\ shopIsLoading
  /\ shopFormData.merchantAccount = "merchant2"
  /\ shopFormData.budget = <<"7", "5">>
  /\ shopFormData.targetRoas = <<"1", "0", "0", "0", "0">>
  /\ shopFormData.countries = <<"Canada">>
  /\ shopActiveStep = 3

(***************************************************************************)
(* Claims about PerformanceMaxCreate                                       *)
(***************************************************************************)
\* the rules of validateStep(0), (1) and (2), read off the form
PmaxFormValid(form) ==
  /\ form.campaignName # ""
  /\ form.merchantAccount # ""
  /\ form.finalUrl # ""
  /\ ToNumber(form.budget) > 0
  /\ form.bidStrategy = "MAXIMIZE_CONVERSION_VALUE"
       => (100 <= ToNumber(form.targetRoas)
             /\ ToNumber(form.targetRoas) <= 10000)
  /\ Len(form.countries) >= 1
  /\ Len(form.conversionGoals) >= 1
  /\ Len(form.assets.headlines) >= 3
  /\ Len(form.assets.descriptions) >= 2
  /\ Len(form.assets.images) >= 1
  /\ Len(form.assets.logos) >= 1

C8_AssetTextLimits ==
  [][pmaxCreating' # pmaxCreating
       => /\ \A i \in 1..Len(pmaxFormData.assets.headlines) :
               pmaxFormData.assets.headlines[i].text <= 30
          /\ \A i \in 1..Len(pmaxFormData.assets.descriptions) :
               pmaxFormData.assets.descriptions[i].text <= 90
    ]_vars

\* C14: the asset lists never drop below the minimum counts: headlines >= 3,
\* descriptions >= 2, images >= 1 and logos >= 1, under any sequence of Add
\* and Delete clicks.
C14_AssetMinimumCounts ==
  \A assetType \in AssetTypes :
    Len(pmaxFormData.assets[assetType]) >= MinAssets[assetType]

\* the ids within one asset list are pairwise distinct
AssetIdsDistinct(list) ==
  \A i, j \in 1..Len(list) : list[i].id = list[j].id => i = j

\* C15: the ids within each asset list are pairwise distinct at all times,
\* and every removeAsset shortens its list by exactly one element.
C15_AssetIdentity ==
  /\ [](\A assetType \in AssetTypes :
          AssetIdsDistinct(pmaxFormData.assets[assetType]))
  /\ [][\A assetType \in AssetTypes :
          Len(pmaxFormData.assets[assetType]') < Len(pmaxFormData.assets[assetType])
            => Len(pmaxFormData.assets[assetType]')
                 = Len(pmaxFormData.assets[assetType]) - 1
      ]_vars

(***************************************************************************)
(* Claims about the alternate api client                                   *)
(***************************************************************************)
\* the step in which the reply to request r of the alternate client is
\* handled
AltReplyHandled(r) == altPc[r] = "inflight" /\ altPc'[r] = "done"

\* C16: every 401 removes echelon_token, assigns '/' to the location exactly
\* when the current path is not '/', and rejects the error to the caller at
\* once, without another call and without a re-send; every other error is
\* rejected to the caller with echelon_token and the location unchanged; a
\* request goes on the wire at most once.
C16_AlternateClientLogout ==
  /\ [](\A r \in Requests : altSends[r] <= 1)
  /\ [][\A r \in Requests :
          /\ (AltReplyHandled(r) /\ altLastStatus'[r] = 401)
               => /\ echelon_token' = Null
                  /\ href' = (IF pathname # "/" THEN "/" ELSE href)
                  /\ pathname' = pathname
                  /\ altPc'[r] = "done"
                  /\ altOutcome'[r] = Rejected(401, 1)
                  /\ altSends' = altSends
          /\ (AltReplyHandled(r) /\ altLastStatus'[r] \in {0, 500})
               => /\ UNCHANGED <<echelon_token, pathname, href>>
                  /\ altPc'[r] = "done"
                  /\ altOutcome'[r] = Rejected(altLastStatus'[r], 1)
                  /\ altSends' = altSends
      ]_vars
  /\ [][href' # href /\ href' # Null
          => (pathname # "/" /\ href' = "/"
                /\ \E r \in Requests :
                     AltReplyHandled(r) /\ altLastStatus'[r] = 401)
      ]_vars

\* C16 witness: on '/', after the redirect caused by a first 401, a request
\* sent without a token got a 401 that assigned no location, and another
\* one failed with 500
C16_Witness ==
  \E r, q \in Requests :
    /\ pathname = "/" /\ href = Null /\ echelon_token = Null
    /\ altOutcome[r] = Rejected(401, 1) /\ altHdr[r] = NoHeader
    /\ altOutcome[q] = Rejected(500, 1)

====
